---- MODULE Spec2Model ----
(***************************************************************************)
(* Model of the bubblemonitor scripts: monitor.py and its older sibling    *)
(* .监控.py.  Both drive one browser session over a target list, capture   *)
(* the /messages response of each page, turn the latest message into       *)
(* records and insert them into a Supabase table.  The variable `variant`  *)
(* says which of the two scripts is the running program.                   *)
(***************************************************************************)
EXTENDS Integers, Sequences, FiniteSets, Bags, TLC

(***************************************************************************)
(* Bounds of the model.                                                    *)
(***************************************************************************)
MaxTicks == 2
MaxRetries == 2
\* scheduled runs in the specification with fairness
MaxLiveTicks == 1

(***************************************************************************)
(* Python values.  Every scalar is a string; None is the string that       *)
(* str(None) gives.  dict.get is Get.                                      *)
(***************************************************************************)
None == "None"

Get(d, k) == IF k \in DOMAIN d THEN d[k] ELSE None

\* `x or d` on an optional string
Or(x, d) == IF x = None \/ x = "" THEN d ELSE x

\* str.strip() on the strings of the fixtures
Strip(s) == IF s \in {"", " ", "  "} THEN "" ELSE s

Max(a, b) == IF a >= b THEN a ELSE b

(***************************************************************************)
(* Fixtures: the spreadsheet rows, and the embeds, messages and /messages  *)
(* bodies of the two channels the rows point at.                           *)
(***************************************************************************)
TNews == [typename |-> "news", url |-> "https://d/1"]
TBlank == [typename |-> "void", url |-> " "]
TChat == [typename |-> "chat", url |-> "https://d/2"]

DataList == <<TNews, TBlank, TChat>>

E0 == [description |-> "d0",
       fields |-> <<[name |-> "n1", value |-> "v1"], [name |-> "n2", value |-> "v2"]>>,
       url |-> "https://e/0"]
E1 == [description |-> "d1", url |-> "https://e/1"]
E2 == [fields |-> <<[name |-> "n3", value |-> "v3"]>>]
E3 == [url |-> "https://e/3"]
\* a JSON null in the embeds list: msgitem.get raises AttributeError
ENull == [null |-> TRUE]

M1 == [id |-> "M1", timestamp |-> "t1", author |-> [username |-> "alice"],
       content |-> "", embeds |-> <<E0, E1>>]
M2 == [id |-> "M2", timestamp |-> "t2", author |-> [username |-> "bob"],
       content |-> "hello"]
M3 == [id |-> "M3", timestamp |-> "t3", embeds |-> <<E1>>]
M4 == [id |-> "M4", timestamp |-> "t4", content |-> "plain", embeds |-> <<>>]
M5 == [id |-> "M5", timestamp |-> "t5", embeds |-> <<E2, ENull>>]
M6 == [id |-> "M6", timestamp |-> "t6", embeds |-> <<E3>>]

\* response.body: a JSON array (isList) of messages, or some other JSON value
ListBody(items) == [isList |-> TRUE, items |-> items]
NotAList == [isList |-> FALSE, items |-> <<>>]

\* the bodies the page at a url can answer with
BodiesOf(url) ==
    IF url = "https://d/1"
        THEN {NotAList, ListBody(<<>>), ListBody(<<M2, M1>>), ListBody(<<M1, M2>>)}
    ELSE IF url = "https://d/2"
        THEN {NotAList, ListBody(<<M3>>), ListBody(<<M4>>), ListBody(<<M5>>),
              ListBody(<<M6>>)}
    ELSE {}

\* what driver.listen.wait can give: a packet, False on timeout, an exception
WaitResults(url) ==
    {[kind |-> "packet", body |-> b] : b \in BodiesOf(url)}
        \cup {[kind |-> "false", body |-> NotAList],
              [kind |-> "raise", body |-> NotAList]}

(***************************************************************************)
(* Pure helpers of the two scripts.                                        *)
(***************************************************************************)
RECURSIVE pick_first(_, _)
pick_first(item, keys) ==
    IF keys = <<>> THEN None
    ELSE LET val == Get(item, Head(keys))
         IN  IF val = None THEN pick_first(item, Tail(keys))
             ELSE IF Strip(val) # "" THEN Strip(val)
             ELSE pick_first(item, Tail(keys))

\* the Chinese column names are written in pinyin: wangzhi, lianjie
get_item_url(item) ==
    pick_first(item, <<"url", "URL", "wangzhi", "lianjie", "link", "Link">>)

\* fenlei, leibie, mingcheng
get_item_typename(item) ==
    Or(pick_first(item, <<"typename", "type", "fenlei", "leibie", "name", "mingcheng">>), "")

\* url and typename as job() of each script reads them off a row
TargetUrl(v, item) == IF v = "monitor" THEN get_item_url(item) ELSE Get(item, "url")
TargetTypename(v, item) ==
    IF v = "monitor" THEN get_item_typename(item) ELSE Get(item, "typename")

\* monitor.py skips a row whose url is falsy; .监控.py has no such test
SkipsTarget(v, item) == v = "monitor" /\ TargetUrl(v, item) \in {None, ""}

\* variant of WaitBudget: the setting counts the waits after the first one
WaitBudgetPlusOne(v, retries) == IF v = "monitor" THEN retries + 1 ELSE 1

\* number of listen.wait calls job() allows one target
WaitBudget(v, retries) == IF v = "monitor" THEN Max(retries, 1) ELSE 1

\* the body test of job(): not a list, or an empty list
IsMalformed(body) == ~body.isList \/ Len(body.items) = 0

\* variant of Latest: the first element of the list is taken
LatestFirst(body) == body.items[1]

\* itemobj = datalist[-1]
Latest(body) == body.items[Len(body.items)]

\* `msglist and len(msglist) > 0`
HasEmbeds(itemobj) == "embeds" \in DOMAIN itemobj /\ Len(itemobj.embeds) > 0

\* variant of AppendFields: only the first field is appended
AppendFirstField(content, fields) ==
    IF fields = <<>> THEN content
    ELSE Or(content, "") \o "\n" \o Or(Get(Head(fields), "name"), "")
            \o ":" \o Or(Get(Head(fields), "value"), "")

\* the content loop over an embed's fields
RECURSIVE AppendFields(_, _)
AppendFields(content, fields) ==
    IF fields = <<>> THEN content
    ELSE AppendFields(Or(content, "") \o "\n" \o Or(Get(Head(fields), "name"), "")
                        \o ":" \o Or(Get(Head(fields), "value"), ""),
                      Tail(fields))

EmbedContent(msgitem) ==
    IF "fields" \in DOMAIN msgitem /\ Len(msgitem.fields) > 0
        THEN AppendFields(Get(msgitem, "description"), msgitem.fields)
        ELSE Get(msgitem, "description")

\* variant of Username: a missing author gives '' instead of None
UsernameOrEmpty(itemobj) ==
    IF "author" \in DOMAIN itemobj THEN Get(itemobj.author, "username") ELSE ""

\* (itemobj.get('author') or {}).get('username')
Username(itemobj) ==
    IF "author" \in DOMAIN itemobj THEN Get(itemobj.author, "username") ELSE None

\* the 'id' entry of the record of the embed at (0-based) index idx
EmbedId(v, itemobj, idx) ==
    IF v = "monitor" THEN Get(itemobj, "id")
    ELSE Get(itemobj, "id") \o "_" \o ToString(idx)

\* temp_dict of the embed branch
EmbedRecord(v, typename, itemobj, idx) ==
    LET msgitem == itemobj.embeds[idx + 1]
    IN  [typename |-> typename,
         username |-> Username(itemobj),
         createtime |-> Get(itemobj, "timestamp"),
         content |-> EmbedContent(msgitem),
         url |-> Get(msgitem, "url"),
         id |-> EmbedId(v, itemobj, idx)]

\* variant of PlainRecord: the id gets the suffix of the embed branch
PlainRecordSuffixed(typename, itemobj) ==
    [typename |-> typename,
     username |-> Username(itemobj),
     createtime |-> Get(itemobj, "timestamp"),
     content |-> Get(itemobj, "content"),
     url |-> "",
     id |-> Get(itemobj, "id") \o "_" \o ToString(0)]

\* temp_dict of the else branch
PlainRecord(typename, itemobj) ==
    [typename |-> typename,
     username |-> Username(itemobj),
     createtime |-> Get(itemobj, "timestamp"),
     content |-> Get(itemobj, "content"),
     url |-> "",
     id |-> Get(itemobj, "id")]

(***************************************************************************)
(* The remote table and insertdata.                                        *)
(***************************************************************************)
\* number of stored rows whose id is the given one
RowsWithId(table, id) ==
    BagCardinality([r \in {x \in DOMAIN table : x.id = id} |-> table[r]])

\* variant of StoreAnswers: a table without the primary key on id
StoreAnswersNoKey(table, data) ==
    {[code |-> c, raised |-> b] : c \in {"42501", "42P01", "XX000"}, b \in BOOLEAN}
        \cup {[code |-> None, raised |-> TRUE], [code |-> "ok", raised |-> FALSE]}

\* what one insert can come back with: "ok", a PostgreSQL error code, or None
\* for an exception that carries no code (network); `raised` says whether the
\* client library raises the error or hands it back in resp.error.  The table
\* has id as its primary key: an insert of a stored id cannot succeed.
StoreAnswers(table, data) ==
    LET errors == {[code |-> c, raised |-> b] :
                      c \in {"42501", "42P01", "XX000"}, b \in BOOLEAN}
                    \cup {[code |-> None, raised |-> TRUE]}
    IN  IF RowsWithId(table, data.id) > 0
            THEN errors \cup {[code |-> "23505", raised |-> b] : b \in BOOLEAN}
            ELSE errors \cup {[code |-> "ok", raised |-> FALSE]}

\* the table after the insert was answered
StoreApply(table, data, ans) ==
    IF ans.code = "ok" THEN table (+) SetToBag({data}) ELSE table

\* variant of insertdata: the except clause catches the store's errors only,
\* an exception without a code (network) leaves insertdata
insertdataLeaky(v, ans) ==
    IF ans.raised /\ ans.code = None THEN "Raised"
    ELSE IF v = "monitor"
        THEN IF ans.raised THEN "Failed"
             ELSE IF ans.code = "ok" THEN "Written"
             ELSE IF ans.code = "23505" THEN "SkippedDuplicate"
             ELSE IF ans.code = "42501" THEN "SkippedPermission"
             ELSE "Failed"
        ELSE IF ~ans.raised THEN "Written"
             ELSE IF ans.code = "42P01" THEN "SkippedMissingResource"
             ELSE IF ans.code = "42501" THEN "SkippedPermission"
             ELSE "Failed"

\* the branch of insertdata that handles the answer, named as a write outcome
\* ("Raised" would be an exception that leaves insertdata: every branch is
\* inside `try ... except Exception`, so there is none)
insertdata(v, ans) ==
    IF v = "monitor"
        THEN IF ans.raised THEN "Failed"
             ELSE IF ans.code = "ok" THEN "Written"
             ELSE IF ans.code = "23505" THEN "SkippedDuplicate"
             ELSE IF ans.code = "42501" THEN "SkippedPermission"
             ELSE "Failed"
        ELSE IF ~ans.raised THEN "Written"
             ELSE IF ans.code = "42P01" THEN "SkippedMissingResource"
             ELSE IF ans.code = "42501" THEN "SkippedPermission"
             ELSE "Failed"

(***************************************************************************)
(* State.                                                                  *)
(***************************************************************************)
VARIABLES
    variant,       \* "monitor" (monitor.py) or "jiankong" (.监控.py)
    RETRIES,       \* monitor.py: the RETRIES setting
    run_on_start,  \* monitor.py: RUN_ON_START
    once,          \* .监控.py: --once
    data_list,     \* the rows read from the spreadsheet
    phase,         \* where main() is
    interrupted,   \* a KeyboardInterrupt was delivered
    scheduled,     \* schedule.every(...).do(job) has been executed
    ticks,         \* scheduled runs started so far
    pc,            \* where job() is
    i,             \* 1-based index of the row the for loop is at
    outcome,       \* per row, how its visit of the current run ended
    attempt,       \* monitor.py: the loop variable of the wait loop
    waits,         \* listen.wait calls made for the current row
    video_resp,    \* body of the captured packet
    itemobj,       \* the latest message of the captured body
    eidx,          \* 0-based index of the embed the embed loop is at
    produced,      \* the temp_dicts built for the current row, in order
    ok_count, fail_count, wrote_count,   \* the counters of .监控.py
    table,         \* the rows of the remote table, a bag
    last_write     \* the insert the step just taken made, if it made one

config == <<variant, RETRIES, run_on_start, once, data_list>>
sched == <<phase, interrupted, scheduled, ticks>>
counters == <<ok_count, fail_count, wrote_count>>
visit == <<attempt, waits, video_resp, itemobj, eidx, produced>>
vars == <<config, sched, pc, i, outcome, visit, counters, table, last_write>>

NoItem == [none |-> TRUE]
NoWrite == [id |-> None, stored |-> FALSE, code |-> None, raised |-> FALSE,
            calls |-> 0, outcome |-> None]

Targets == 1..Len(data_list)

Init ==
    /\ variant \in {"monitor", "jiankong"}
    /\ RETRIES \in (IF variant = "monitor" THEN 0..MaxRetries ELSE {0})
    /\ run_on_start \in (IF variant = "monitor" THEN BOOLEAN ELSE {FALSE})
    /\ once \in (IF variant = "jiankong" THEN BOOLEAN ELSE {FALSE})
    /\ data_list = DataList
    /\ phase = "Startup"
    /\ interrupted = FALSE
    /\ scheduled = FALSE
    /\ ticks = 0
    /\ pc = "none"
    /\ i = 0
    /\ outcome = [k \in Targets |-> "none"]
    /\ attempt = 0
    /\ waits = 0
    /\ video_resp = NotAList
    /\ itemobj = NoItem
    /\ eidx = 0
    /\ produced = <<>>
    /\ ok_count = 0
    /\ fail_count = 0
    /\ wrote_count = 0
    /\ table = EmptyBag
    /\ last_write = NoWrite

(***************************************************************************)
(* main(): startup, the schedule loop, KeyboardInterrupt.                  *)
(***************************************************************************)
InJob == phase \in {"StartRun", "Running"}

\* entry of job(): the counters and the loop start afresh
StartJob ==
    /\ pc' = "loop"
    /\ i' = 0
    /\ outcome' = [k \in Targets |-> "none"]
    /\ attempt' = 0
    /\ waits' = 0
    /\ video_resp' = NotAList
    /\ itemobj' = NoItem
    /\ eidx' = 0
    /\ produced' = <<>>
    /\ ok_count' = 0
    /\ fail_count' = 0
    /\ wrote_count' = 0

\* whether main() calls job() itself before (or instead of) scheduling it
RunsAtStart(v, ros, onceFlag) ==
    IF v = "monitor" THEN ros ELSE onceFlag

MainStart ==
    /\ phase = "Startup"
    /\ IF RunsAtStart(variant, run_on_start, once)
          THEN /\ phase' = "StartRun"
               /\ scheduled' = scheduled
               /\ StartJob
          ELSE /\ phase' = "Idle"
               /\ scheduled' = TRUE
               /\ UNCHANGED <<pc, i, outcome, visit, counters>>
    /\ UNCHANGED <<config, interrupted, ticks, table>>
    /\ last_write' = NoWrite

\* schedule.run_pending() finds the interval elapsed and calls job(); the
\* model follows at most `limit` scheduled runs
RunPendingUpTo(limit) ==
    /\ phase = "Idle"
    /\ ticks < limit
    /\ phase' = "Running"
    /\ ticks' = ticks + 1
    /\ StartJob
    /\ UNCHANGED <<config, interrupted, scheduled, table>>
    /\ last_write' = NoWrite

RunPending == RunPendingUpTo(MaxTicks)

\* job() returns: to the schedule loop, to main() before schedule.every, or,
\* under --once, to the end of main()
JobReturn ==
    /\ InJob
    /\ pc = "loop"
    /\ i = Len(data_list)
    /\ pc' = "returned"
    /\ phase' = (IF phase = "StartRun" /\ variant = "jiankong" THEN "Exited" ELSE "Idle")
    /\ scheduled' = (phase' = "Idle")
    /\ attempt' = 0
    /\ waits' = 0
    /\ video_resp' = NotAList
    /\ itemobj' = NoItem
    /\ eidx' = 0
    /\ produced' = <<>>
    /\ UNCHANGED <<config, interrupted, ticks, i, outcome, counters, table>>
    /\ last_write' = NoWrite

\* an exception leaves job(): nothing in main() catches it
Escape ==
    /\ pc' = "raised"
    /\ phase' = "Crashed"

\* Ctrl+C.  Only the schedule loop of main() catches KeyboardInterrupt; the
\* `except Exception` clauses of job() and insertdata() do not.
Interrupt ==
    /\ phase \in {"StartRun", "Idle", "Running"}
    /\ interrupted' = TRUE
    /\ phase' = (IF phase = "StartRun" THEN "Crashed" ELSE "Stopped")
    /\ UNCHANGED <<config, scheduled, ticks, pc, i, outcome, visit, counters,
                   table, last_write>>

(***************************************************************************)
(* job(): one action per step of the loop body.                            *)
(***************************************************************************)
\* the visit of row i ends with `result` and the for loop goes on
TargetDone(result) ==
    /\ outcome' = [outcome EXCEPT ![i] = result]
    /\ pc' = "loop"

\* the `except Exception` of job(): .监控.py counts, monitor.py only logs
Failed(v, n) == IF v = "jiankong" THEN n + 1 ELSE n

\* variant of AfterMalformed: a malformed body is waited for again
AfterMalformedRetry(v) == "wait"

\* variant of AfterMalformed: a malformed body goes on to the else branch
AfterMalformedPlain(v) == "plain"

\* variant of AfterMalformed: monitor.py repeats the body test instead of
\* leaving the row
AfterMalformedAgain(v) == IF v = "monitor" THEN "body" ELSE "loop"

\* the pc after the body test found the body malformed
AfterMalformed(v) == "loop"

NextTarget ==
    /\ InJob
    /\ pc = "loop"
    /\ i < Len(data_list)
    /\ i' = i + 1
    /\ attempt' = 0
    /\ waits' = 0
    /\ video_resp' = NotAList
    /\ itemobj' = NoItem
    /\ eidx' = 0
    /\ produced' = <<>>
    /\ IF SkipsTarget(variant, data_list[i + 1])
          THEN /\ outcome' = [outcome EXCEPT ![i + 1] = "skipped"]
               /\ pc' = "loop"
          ELSE /\ outcome' = [outcome EXCEPT ![i + 1] = "visiting"]
               /\ pc' = "arm"
    /\ UNCHANGED <<config, sched, counters, table>>
    /\ last_write' = NoWrite

\* driver.listen.start(...), outside the try block
ListenStart ==
    /\ InJob
    /\ pc = "arm"
    /\ \E raises \in BOOLEAN :
          IF raises
             THEN /\ Escape
                  /\ UNCHANGED <<interrupted, scheduled, ticks>>
             ELSE /\ pc' = "get"
                  /\ UNCHANGED sched
    /\ UNCHANGED <<config, i, outcome, visit, counters, table>>
    /\ last_write' = NoWrite

\* driver.get(url), outside the try block
DriverGet ==
    /\ InJob
    /\ pc = "get"
    /\ \E raises \in BOOLEAN :
          IF raises
             THEN /\ Escape
                  /\ UNCHANGED <<interrupted, scheduled, ticks>>
             ELSE /\ pc' = "sleep"
                  /\ UNCHANGED sched
    /\ UNCHANGED <<config, i, outcome, visit, counters, table>>
    /\ last_write' = NoWrite

\* time.sleep(PAGE_WAIT_SECONDS); the try block and the wait loop are entered
Settle ==
    /\ InJob
    /\ pc = "sleep"
    /\ pc' = "wait"
    /\ attempt' = 1
    /\ UNCHANGED <<config, sched, i, outcome, waits, video_resp, itemobj, eidx,
                   produced, counters, table>>
    /\ last_write' = NoWrite

\* one driver.listen.wait(...) and what the code does with its result
ListenWait ==
    /\ InJob
    /\ pc = "wait"
    /\ waits' = waits + 1
    /\ \E r \in WaitResults(TargetUrl(variant, data_list[i])) :
          CASE r.kind = "packet" ->
                  /\ video_resp' = r.body
                  /\ pc' = "body"
                  /\ UNCHANGED <<attempt, outcome, fail_count>>
            [] r.kind = "false" /\ attempt < WaitBudget(variant, RETRIES) ->
                  /\ attempt' = attempt + 1
                  /\ UNCHANGED <<pc, video_resp, outcome, fail_count>>
            [] r.kind = "false" /\ attempt >= WaitBudget(variant, RETRIES) ->
                  /\ TargetDone("timeout")
                  /\ fail_count' = Failed(variant, fail_count)
                  /\ UNCHANGED <<attempt, video_resp>>
            [] r.kind = "raise" ->
                  /\ TargetDone("error")
                  /\ fail_count' = Failed(variant, fail_count)
                  /\ UNCHANGED <<attempt, video_resp>>
    /\ UNCHANGED <<config, sched, i, itemobj, eidx, produced, ok_count,
                   wrote_count, table>>
    /\ last_write' = NoWrite

\* the test of response.body and the choice of the branch
InspectBody ==
    /\ InJob
    /\ pc = "body"
    /\ IF IsMalformed(video_resp)
          THEN /\ outcome' = [outcome EXCEPT ![i] = "malformed"]
               /\ pc' = AfterMalformed(variant)
               /\ fail_count' = Failed(variant, fail_count)
               /\ UNCHANGED itemobj
          ELSE /\ itemobj' = Latest(video_resp)
               /\ pc' = (IF HasEmbeds(Latest(video_resp)) THEN "embeds" ELSE "plain")
               /\ UNCHANGED <<outcome, fail_count>>
    /\ UNCHANGED <<config, sched, i, attempt, waits, video_resp, eidx, produced,
                   ok_count, wrote_count, table>>
    /\ last_write' = NoWrite

\* insertdata(data): one insert().execute(), answered by the store, handled
\* by insertdata; .监控.py then counts the call
Insert(data) ==
    \E ans \in StoreAnswers(table, data) :
        /\ table' = StoreApply(table, data, ans)
        /\ last_write' = [id |-> data.id,
                          stored |-> RowsWithId(table, data.id) > 0,
                          code |-> ans.code, raised |-> ans.raised,
                          calls |-> 1,
                          outcome |-> insertdata(variant, ans)]
        /\ wrote_count' = (IF variant = "jiankong" /\ insertdata(variant, ans) # "Raised"
                              THEN wrote_count + 1 ELSE wrote_count)

\* one pass of the embed loop
ProcessEmbed ==
    /\ InJob
    /\ pc = "embeds"
    /\ IF itemobj.embeds[eidx + 1] = ENull
          THEN /\ TargetDone("error")
               /\ fail_count' = Failed(variant, fail_count)
               /\ last_write' = NoWrite
               /\ UNCHANGED <<eidx, produced, ok_count, wrote_count, table>>
          ELSE /\ Insert(EmbedRecord(variant, TargetTypename(variant, data_list[i]),
                                     itemobj, eidx))
               /\ produced' = Append(produced,
                                     EmbedRecord(variant,
                                                 TargetTypename(variant, data_list[i]),
                                                 itemobj, eidx))
               /\ IF last_write'.outcome = "Raised"
                     THEN /\ TargetDone("error")
                          /\ fail_count' = Failed(variant, fail_count)
                          /\ UNCHANGED <<eidx, ok_count>>
                     ELSE IF eidx + 1 < Len(itemobj.embeds)
                     THEN /\ eidx' = eidx + 1
                          /\ UNCHANGED <<pc, outcome, ok_count, fail_count>>
                     ELSE /\ TargetDone("ok")
                          /\ ok_count' = (IF variant = "jiankong" THEN ok_count + 1
                                          ELSE ok_count)
                          /\ UNCHANGED <<eidx, fail_count>>
    /\ UNCHANGED <<config, sched, i, attempt, waits, video_resp, itemobj>>

\* the else branch: one record of the message itself
ProcessPlain ==
    /\ InJob
    /\ pc = "plain"
    /\ Insert(PlainRecord(TargetTypename(variant, data_list[i]), itemobj))
    /\ produced' = Append(produced,
                          PlainRecord(TargetTypename(variant, data_list[i]), itemobj))
    /\ IF last_write'.outcome = "Raised"
          THEN /\ TargetDone("error")
               /\ fail_count' = Failed(variant, fail_count)
               /\ UNCHANGED ok_count
          ELSE /\ TargetDone("ok")
               /\ ok_count' = (IF variant = "jiankong" THEN ok_count + 1 ELSE ok_count)
               /\ UNCHANGED fail_count
    /\ UNCHANGED <<config, sched, i, attempt, waits, video_resp, itemobj, eidx>>

Next ==
    \/ MainStart
    \/ RunPending
    \/ JobReturn
    \/ Interrupt
    \/ NextTarget
    \/ ListenStart
    \/ DriverGet
    \/ Settle
    \/ ListenWait
    \/ InspectBody
    \/ ProcessEmbed
    \/ ProcessPlain

Spec == Init /\ [][Next]_vars

\* the steps of job(): one thread runs them in sequence, and each call the
\* step makes returns, so a run that can take its next step takes it
JobStep ==
    \/ NextTarget
    \/ ListenStart
    \/ DriverGet
    \/ Settle
    \/ ListenWait
    \/ InspectBody
    \/ ProcessEmbed
    \/ ProcessPlain
    \/ JobReturn

LiveNext ==
    \/ MainStart
    \/ RunPendingUpTo(MaxLiveTicks)
    \/ Interrupt
    \/ JobStep

LiveSpec == Init /\ [][LiveNext]_vars /\ WF_vars(JobStep)

(***************************************************************************)
(* Properties.                                                             *)
(***************************************************************************)

\* C1: whatever ticks have run, the table holds at most one row per id; a
\* re-run on a message whose id is stored adds no second row for it.
C1_OneRowPerId == \A r \in DOMAIN table : RowsWithId(table, r.id) <= 1

\* a later tick found M2 the latest message again (a run inserts it at most
\* once), re-inserted its id and the table still has one row of it
C1_Witness ==
    /\ ticks = 2
    /\ last_write.id = "M2"
    /\ last_write.stored
    /\ last_write.code = "23505"
    /\ RowsWithId(table, last_write.id) = 1

\* C2: an insert answered with unique-violation 23505 is handled as
\* SkippedDuplicate, never as Failed, and leaves the one stored row alone.
C2_DuplicateIsSkipped ==
    last_write.code = "23505" =>
        /\ last_write.outcome = "SkippedDuplicate"
        /\ RowsWithId(table, last_write.id) = 1

\* C3: a run of job() ends only by returning, after every row of the list
\* was reached; no error of one row's processing ends it early.
C3_AllTargetsAttempted ==
    pc \in {"returned", "raised"} =>
        /\ pc = "returned"
        /\ \A k \in Targets : outcome[k] # "none"

\* C4: once job() is scheduled, the process ends only by a KeyboardInterrupt.
C4_OnlyInterruptStops ==
    (scheduled /\ phase \in {"Stopped", "Crashed", "Exited"}) => interrupted

\* C5: an interrupt takes effect only between runs: when the process has
\* stopped on it, no run of job() is left cut off part-way.
C5_InterruptAfterRun == interrupted => pc \in {"none", "returned"}

\* C6: a message with N >= 1 embeds gives N records, in embed order, the one
\* of the embed at index k with id "{message id}_{k}" and that embed's url.
C6_EmbedRecords ==
    (HasEmbeds(itemobj) /\ i >= 1) =>
        /\ outcome[i] = "ok" => Len(produced) = Len(itemobj.embeds)
        /\ \A k \in 1..Len(produced) :
              /\ produced[k].id = Get(itemobj, "id") \o "_" \o ToString(k - 1)
              /\ produced[k].url = Get(itemobj.embeds[k], "url")

\* C7: the records of one message have pairwise distinct ids.
C7_DistinctIds ==
    \A a, b \in 1..Len(produced) : a # b => produced[a].id # produced[b].id

\* C8: a message whose embeds are absent or empty gives exactly one record,
\* with the message's id unchanged, the message's content and url "".
C8_PlainRecord ==
    (i >= 1 /\ outcome[i] = "ok" /\ itemobj # NoItem /\ ~HasEmbeds(itemobj)) =>
        /\ Len(produced) = 1
        /\ produced[1].id = Get(itemobj, "id")
        /\ produced[1].content = Get(itemobj, "content")
        /\ produced[1].url = ""

\* M4, whose embeds list is empty, went through the else branch
C8_Witness ==
    /\ i >= 1
    /\ outcome[i] = "ok"
    /\ itemobj = M4
    /\ produced = <<[typename |-> "chat", username |-> None, createtime |-> "t4",
                     content |-> "plain", url |-> "", id |-> "M4"]>>

\* C9 as claimed: a row just given up on timeout has had RETRIES + 1 waits.
C9_RetriesPlusOneWaits ==
    (pc = "loop" /\ i >= 1 /\ outcome[i] = "timeout") => waits = RETRIES + 1

\* C9 as amended: monitor.py makes max(RETRIES, 1) waits in all (RETRIES
\* counts every attempt), .监控.py one; never more, and a row is given up
\* on timeout only when that many waits were made.
C9_WaitBudget ==
    LET budget == IF variant = "monitor" /\ RETRIES > 1 THEN RETRIES ELSE 1
    IN  /\ waits <= budget
        /\ (pc = "loop" /\ i >= 1 /\ outcome[i] = "timeout") => waits = budget

C9_Witness ==
    /\ variant = "monitor"
    /\ RETRIES = 2
    /\ pc = "loop"
    /\ i >= 1
    /\ outcome[i] = "timeout"
    /\ waits = 2

\* C10: a row whose captured body is not a non-empty list is given up at the
\* body test: job() is back at the loop head, no further wait is made for
\* the row, and the loop goes on to the next row.
C10_MalformedEndsVisit ==
    \A k \in Targets :
        outcome[k] = "malformed" => (k < i \/ pc \in {"loop", "returned"})

\* the row after a malformed one is being visited
C10_Witness ==
    /\ i = 3
    /\ outcome[1] = "malformed"
    /\ outcome[3] = "visiting"
    /\ pc = "wait"

\* C11: when a run of job() has ended, ok + fail is the number of rows, ok
\* counts the rows whose capture and extraction succeeded and fail the rows
\* whose capture or extraction failed.  (Stated of .监控.py, the script that
\* keeps the counters.)
C11_CountersCoverTargets ==
    (variant = "jiankong" /\ pc \in {"returned", "raised"}) =>
        /\ ok_count + fail_count = Len(data_list)
        /\ ok_count = Cardinality({k \in Targets : outcome[k] = "ok"})
        /\ fail_count = Cardinality({k \in Targets :
                                       outcome[k] \in {"timeout", "malformed", "error"}})

\* C12: the written counter grows only on an insert whose outcome is Written
\* or SkippedDuplicate.
C12_WrittenCountsSuccess ==
    [][wrote_count' > wrote_count =>
          last_write'.outcome \in {"Written", "SkippedDuplicate"}]_vars

\* C13: a row with no resolvable url is skipped: it is never navigated to,
\* waited on or written for.
C13_NoUrlSkipped ==
    \A k \in Targets :
        get_item_url(data_list[k]) = None => outcome[k] \in {"none", "skipped"}

\* C16: under the default settings main() has completed one run of job()
\* before it schedules anything and before any scheduled run.
C16_RunsAtStartByDefault ==
    LET default == IF variant = "monitor" THEN run_on_start ELSE ~once
    IN  (default /\ phase \notin {"Startup", "StartRun"} /\ ~interrupted /\ ticks = 0)
            => pc = "returned"

\* C14: every call of insertdata makes one insert on the store and returns
\* normally with one of the write outcomes, whatever the store answered; no
\* exception of the store leaves it.
C14_OneAttemptNoRaise ==
    last_write # NoWrite =>
        /\ last_write.calls = 1
        /\ last_write.outcome \in {"Written", "SkippedDuplicate", "SkippedPermission",
                                   "SkippedMissingResource", "Failed"}

\* the insert of the first embed raised an exception without a code; it was
\* handled as Failed and the embed loop goes on with the second embed
C14_Witness ==
    /\ last_write.raised
    /\ last_write.code = None
    /\ last_write.outcome = "Failed"
    /\ pc = "embeds"
    /\ eidx = 1

\* C17: a message without author whose sole embed has no fields is
\* extracted without an error: one record, username None, content the
\* embed's description as it is (None when the embed has no description).
C17_MissingFieldsTolerated ==
    (/\ pc = "loop"
     /\ i >= 1
     /\ HasEmbeds(itemobj)
     /\ Len(itemobj.embeds) = 1
     /\ "author" \notin DOMAIN itemobj
     /\ "fields" \notin DOMAIN itemobj.embeds[1]) =>
        /\ outcome[i] = "ok"
        /\ Len(produced) = 1
        /\ produced[1].username = None
        /\ produced[1].content =
              (IF "description" \in DOMAIN itemobj.embeds[1]
                  THEN itemobj.embeds[1].description ELSE None)

\* M6: no author, one embed with neither description nor fields
C17_Witness ==
    /\ pc = "loop"
    /\ i = 3
    /\ itemobj = M6
    /\ outcome[3] = "ok"
    /\ produced[1].username = None
    /\ produced[1].content = None

\* the lines of the first k fields, each a newline and then "name:value"
RECURSIVE FieldLines(_, _)
FieldLines(fields, k) ==
    IF k = 0 THEN ""
    ELSE FieldLines(fields, k - 1) \o "\n" \o fields[k].name \o ":" \o fields[k].value

\* C18: the content of an embed's record is the embed's description (taken
\* as empty when the embed has fields but no description) followed by the
\* lines of all its fields in list order.
C18_ContentConcatenation ==
    HasEmbeds(itemobj) =>
        \A k \in 1..Len(produced) :
            LET msgitem == itemobj.embeds[k]
                fields == IF "fields" \in DOMAIN msgitem THEN msgitem.fields ELSE <<>>
                d == IF "description" \in DOMAIN msgitem THEN msgitem.description ELSE ""
            IN  ("description" \in DOMAIN msgitem \/ fields # <<>>) =>
                    produced[k].content = d \o FieldLines(fields, Len(fields))

\* E0, with two fields, and E1, with none, have been turned into records
C18_Witness ==
    /\ itemobj = M1
    /\ Len(produced) = 2
    /\ produced[1].content = "d0\nn1:v1\nn2:v2"
    /\ produced[2].content = "d1"

\* C19: when the captured body is a non-empty list, every record built and
\* inserted during the visit comes from the last element of the list: it has
\* that message's timestamp and its id (bare or with an embed index).
C19_OnlyLatestWritten ==
    (video_resp.isList /\ Len(video_resp.items) > 0) =>
        LET last == video_resp.items[Len(video_resp.items)]
            ids == {last.id} \cup {last.id \o "_" \o ToString(n) : n \in 0..2}
        IN  /\ \A k \in 1..Len(produced) :
                  /\ produced[k].createtime = last.timestamp
                  /\ produced[k].id \in ids
            /\ last_write # NoWrite => last_write.id \in ids

\* the body was [M2, M1]: both records are M1's and M2 caused no write
C19_Witness ==
    /\ video_resp = ListBody(<<M2, M1>>)
    /\ Len(produced) = 2
    /\ produced[1].createtime = "t1"
    /\ produced[2].createtime = "t1"
    /\ RowsWithId(table, "M2") = 0

\* C20: a step that calls insertdata or changes the table is a step of a
\* visit that is still under way and whose wait captured a non-empty list;
\* a visit whose capture fails makes no insert and leaves the table as it was.
C20_FailedCaptureWritesNothing ==
    [][((last_write' # NoWrite /\ ~interrupted') \/ table' # table) =>
          /\ video_resp.isList
          /\ Len(video_resp.items) > 0
          /\ outcome[i] = "visiting"]_vars

\* a visit ended on a failed capture with rows in the table and no insert made
C20_Witness ==
    /\ pc = "loop"
    /\ i >= 1
    /\ outcome[i] \in {"timeout", "malformed"}
    /\ produced = <<>>
    /\ last_write = NoWrite
    /\ table # EmptyBag

\* C15: every run of job() that starts comes to its end: it returns (main()
\* is then back in the schedule loop, or at its end under --once), unless an
\* exception of listen.start or driver.get or an interrupt ends it before.
C15_RunTerminates == InJob ~> (pc = "returned" \/ pc = "raised" \/ interrupted)

\* a scheduled run has returned after a row used up all its waits
C15_Witness ==
    /\ phase = "Idle"
    /\ pc = "returned"
    /\ ticks = 1
    /\ RETRIES = 2
    /\ outcome[1] = "timeout"
    /\ outcome[3] = "ok"

====
